---- MODULE Spec2Model ----
(***************************************************************************)
(* Model of the market-data aggregation engine (src/data_fetcher.py):      *)
(* the retry decorator, the percentage calculator, the provider adapters   *)
(* and anchor lookups, the fallback resolvers, the last-known-good cache   *)
(* and fetch_market_data itself, with its caller main() (src/main.py).     *)
(*                                                                         *)
(* Optional values: None is the empty tuple, a present value v is <<v>>.   *)
(* Floats that are percentages are exact rationals <<num, den>> in lowest  *)
(* terms with den > 0, so 0.0 is <<0, 1>>.                                 *)
(***************************************************************************)
EXTENDS Integers, Sequences, FiniteSets, TLC

\* ------------------------------------------------------------------ bounds
\* number of calls of fetch_market_data in one behaviour
MaxRuns == 2
\* number of instruments, over one behaviour, whose provider calls may fail
MaxDegraded == 1
\* largest n handed to _retry in the retry specification
MaxAttempts == 3
\* prices handed to calculate_percentage range over -MaxAbs..MaxAbs
MaxAbs == 5
\* longest fallback tuple handed to _get_price_with_fallback on its own
MaxFallbacks == 2
\* calendar days are numbered from 0, the oldest day a provider has data for;
\* `now` falls on day TodayDate and January 1 of its year on day YearStartDate
TodayDate == 60
YearStartDate == 20
\* a provider with a short history has bars on the last MaxSpan + 1 days at most
MaxSpan == 4

\* ------------------------------------------------------------ Optional, floats
None == <<>>
Some(v) == <<v>>

Abs(n) == IF n < 0 THEN 0 - n ELSE n

RECURSIVE GCD(_, _)
GCD(a, b) == IF b = 0 THEN a ELSE GCD(b, a % b)

\* the rational n/d (d # 0) in lowest terms, denominator positive
Float(n, d) ==
    LET g == GCD(Abs(n), Abs(d))
        s == IF d < 0 THEN 0 - 1 ELSE 1
    IN  <<(s * n) \div g, (s * d) \div g>>

Zero == <<0, 1>>

\* ------------------------------------------------------------------ config
TICKERS ==
    [JSE |-> "^J203.JO", USDZAR |-> "ZAR=X", EURZAR |-> "EURZAR=X",
     GBPZAR |-> "GBPZAR=X", BRENT |-> "BZ=F", GOLD |-> "GC=F", SP500 |-> "^GSPC"]

FALLBACKS ==
    [JSE |-> <<"STXALJ.JO">>, USDZAR |-> <<>>, EURZAR |-> <<>>, GBPZAR |-> <<>>,
     BRENT |-> <<"CL=F">>, GOLD |-> <<"XAUUSD=X">>, SP500 |-> <<"SPY">>]

RETRY_ATTEMPTS == 3
RETRY_DELAY == <<7, 10>>
RETRY_BACKOFF == <<9, 5>>

\* ------------------------------------------------------- calculate_percentage
calculate_percentage_swapped(old, new) ==
    IF old = None \/ new = None THEN Zero
    ELSE IF old[1] = 0 THEN Zero
    ELSE IF new[1] = 0 THEN Zero
    ELSE Float((new[1] - old[1]) * 100, new[1])

\* true division: the quotient in exact arithmetic, or the exception it raises
Divide(n, d) ==
    IF d = 0 THEN [exc |-> "ZeroDivisionError", value |-> Zero]
    ELSE [exc |-> "none", value |-> Float(n, d)]

calculate_percentage(old, new) ==
    IF old = None \/ new = None THEN Zero
    ELSE IF old[1] = 0 THEN Zero
    ELSE LET q == Divide((new[1] - old[1]) * 100, old[1])
         IN  IF q.exc \in {"TypeError", "ZeroDivisionError"} THEN Zero ELSE q.value

\* truthiness of an Optional[float] under Python's `or`: None and 0.0 are falsy
Truthy(a) == IF a = None THEN FALSE ELSE a[1] # 0

\* ------------------------------------------------------------------ basket
\* keys of the results dict, in the order of the literal at lines 406-456
Instruments ==
    <<"JSEALSHARE", "USDZAR", "EURZAR", "GBPZAR", "BRENT", "GOLD", "SP500", "BITCOINZAR">>

InstrumentSet == {Instruments[k] : k \in DOMAIN Instruments}

\* the series the save guard calls "core" (line 459)
Core == {"JSEALSHARE", "USDZAR", "EURZAR", "GBPZAR"}

\* the three currency pairs with their (yahoo ticker, base, quote) of lines 352-354
FxPairs ==
    [USDZAR |-> [ticker |-> TICKERS.USDZAR, base |-> "USD", quote |-> "ZAR"],
     EURZAR |-> [ticker |-> TICKERS.EURZAR, base |-> "EUR", quote |-> "ZAR"],
     GBPZAR |-> [ticker |-> TICKERS.GBPZAR, base |-> "GBP", quote |-> "ZAR"]]

\* the instruments resolved with _get_price_with_fallback and its siblings
TickerKey == [JSEALSHARE |-> "JSE", BRENT |-> "BRENT", GOLD |-> "GOLD", SP500 |-> "SP500"]

\* names of the two providers that are not addressed by a ticker
EXHOST == "exchangerate.host"
COINGECKO == "coingecko"

\* (now - start_of_year).days at the time of the run
days_from_ytd == TodayDate - YearStartDate

\* --------------------------------------------------------- fallback resolvers
\* Each resolver is given the provider's answers as a function of the key it is
\* called with and returns [value, calls]: the value the Python function returns
\* and, in order, the keys it asked the provider about.

\* the `for alt in fallbacks` loops of lines 249-254, 280-285 and 292-297
RECURSIVE TryAlts(_, _, _)
TryAlts(alts, answer, calls) ==
    IF alts = <<>> THEN [value |-> None, calls |-> calls]
    ELSE LET alt == Head(alts)
             p == answer[alt]
         IN  IF p # None THEN [value |-> p, calls |-> Append(calls, alt)]
             ELSE TryAlts(Tail(alts), answer, Append(calls, alt))

\* a resolver that keeps looking after a success and so returns the last hit
RECURSIVE TryAltsLast(_, _, _, _)
TryAltsLast(alts, answer, calls, best) ==
    IF alts = <<>> THEN [value |-> best, calls |-> calls]
    ELSE LET alt == Head(alts)
             p == answer[alt]
         IN  TryAltsLast(Tail(alts), answer, Append(calls, alt),
                         IF p # None THEN p ELSE best)

_get_price_with_fallback_last(primary, fallbacks, yf_latest) ==
    TryAltsLast(fallbacks, yf_latest, <<primary>>, yf_latest[primary])

_get_price_with_fallback(primary, fallbacks, yf_latest) ==
    LET price == yf_latest[primary]
    IN  IF price # None THEN [value |-> price, calls |-> <<primary>>]
        ELSE TryAlts(fallbacks, yf_latest, <<primary>>)

\* yf_hist is keyed by <<ticker, days>>
_get_hist_with_fallback(ticker, days, alt_tickers, yf_hist) ==
    LET byTicker == [t \in {ticker} \cup {alt_tickers[k] : k \in DOMAIN alt_tickers}
                        |-> yf_hist[<<t, days>>]]
        p == byTicker[ticker]
    IN  IF p # None THEN [value |-> p, calls |-> <<ticker>>]
        ELSE TryAlts(alt_tickers, byTicker, <<ticker>>)

_get_ytd_with_fallback(ticker, alt_tickers, yf_ytd) ==
    LET p == yf_ytd[ticker]
    IN  IF p # None THEN [value |-> p, calls |-> <<ticker>>]
        ELSE TryAlts(alt_tickers, yf_ytd, <<ticker>>)

\* fx_latest is the answer of exchangerate.host/latest for this pair
_get_fx_pair_with_fallback(yahoo_ticker, yf_latest, fx_latest) ==
    LET y == yf_latest[yahoo_ticker]
    IN  IF y # None THEN [value |-> y, calls |-> <<yahoo_ticker>>]
        ELSE [value |-> fx_latest, calls |-> <<yahoo_ticker, EXHOST>>]

\* the closure fx_hist of lines 357-365; fx_on_date is exchangerate.host's answer
fx_hist(pair_ticker, days, yf_hist, fx_on_date) ==
    LET v == yf_hist[<<pair_ticker, days>>]
    IN  IF v # None THEN [value |-> v, calls |-> <<pair_ticker>>]
        ELSE [value |-> fx_on_date, calls |-> <<pair_ticker, EXHOST>>]

\* `_yf_ytd_first_close(t) or _fx_on_date_exhost(start_of_year, ...)`, lines 369-377
fx_ytd_ref(pair_ticker, yf_ytd, fx_on_date) ==
    LET v == yf_ytd[pair_ticker]
    IN  IF Truthy(v) THEN [value |-> v, calls |-> <<pair_ticker>>]
        ELSE [value |-> fx_on_date, calls |-> <<pair_ticker, EXHOST>>]

\* the key that supplied a resolver's value: the last one asked, if any answered
Supplier(r) == IF r.value = None THEN "none" ELSE r.calls[Len(r.calls)]

\* ---------------------------------------------------------- provider answers
\* What a provider answers when it answers at all.  Run r happens at time r, and
\* the latest price moves with it; a proxy instrument trades at another level
\* than the series it stands in for, and exchangerate.host quotes a pair
\* slightly off Yahoo's quote.
IsProxy(t) == \E k \in DOMAIN FALLBACKS : \E j \in DOMAIN FALLBACKS[k] : FALLBACKS[k][j] = t

Quote(t, r) ==
    IF t = EXHOST THEN 101 + r
    ELSE IF IsProxy(t) THEN 50 + r
    ELSE 100 + r

\* the close `days` sessions back, and the first close of the year; the bar
\* days_from_ytd sessions back is older than January 1, sessions being fewer
\* than calendar days
Close(days) == IF days = 1 THEN 100 ELSE IF days = 30 THEN 80 ELSE 40
FirstCloseOfYear == 50

\* -------------------------------------------------------------------- state
VARIABLES
    pc,         \* where the current call of fetch_market_data stands
    run,        \* calls of fetch_market_data begun so far; `now` of the current one
    loc,        \* the locals jse_today, jse_1d, ... per instrument
    results,    \* the dict `results`, None until it is assembled
    cache,      \* CACHE_FILE: whether it exists and the snapshot its text parses to
    ret,        \* how the last call of fetch_market_data ended
    probe,      \* history: who was asked, and who answered, in the last fetch step
    todaySrc,   \* history: the source of each instrument's Today in this run
    filled,     \* history: the instruments whose Today this run took from the cache
    lost,       \* history: the instruments whose cached Today this run's write erased
    lastGood,   \* history: results of the latest run whose core Todays were all set
    degraded,   \* the instruments one of whose provider calls failed in this run
    spent,      \* instruments degraded in earlier runs
    pctCall,    \* one call of calculate_percentage: its arguments and result
    priceCall,  \* one call of _get_price_with_fallback: arguments, answers, result
    retryCall,  \* one call of a function wrapped by _retry: the loop's state
    histCall,   \* one call of an anchor lookup: the provider's answers and the result
    adapterCall,\* one call of a provider adapter: the attempts' outcomes and the result
    trace       \* history: the steps the current run of main() has taken

mainVars ==
    <<pc, run, loc, results, cache, ret, probe, todaySrc, filled, lost, lastGood, degraded,
      spent, trace>>

\* the variables of the specifications of single functions
pureVars == <<pctCall, priceCall, retryCall, histCall, adapterCall>>

NoLocals == [today |-> None, d1 |-> None, d30 |-> None, ytd |-> None]

NoProbe == [inst |-> "none", todayCalls |-> <<>>, d1 |-> "unset", d30 |-> "unset",
            ytd |-> "unset"]

NoFile == [exists |-> FALSE, text |-> None]

\* the statements of the try block, in program order
PcOrder ==
    <<"jse", "today_USDZAR", "today_EURZAR", "today_GBPZAR",
      "hist_USDZAR", "hist_EURZAR", "hist_GBPZAR",
      "BRENT", "GOLD", "SP500", "btc", "assemble">>

After(p) == PcOrder[(CHOOSE k \in DOMAIN PcOrder : PcOrder[k] = p) + 1]

\* the statements of the try block in which something unforeseen can raise
\* (_save_cache, _load_cache and the return swallow or raise nothing)
InTry == {PcOrder[k] : k \in DOMAIN PcOrder}

\* ------------------------------------------------------------------- cache
_load_cache(file) == IF file.exists THEN file.text ELSE None

_save_cache(data) == [exists |-> TRUE, text |-> Some(data)]

\* what _save_cache can leave behind when lines 233-234 raise: open("w")
\* raised and the file is as it was, or open("w") emptied the file and
\* json.dump raised part-way, leaving a prefix of the text that does not parse
\* (json.load then raises in _load_cache, which answers None)
_save_cache_raises(file) == {file, [exists |-> TRUE, text |-> None]}

\* ------------------------------------------------------------ fetch_market_data
\* no call of fetch_market_data has begun and there is no cache file
mainIdle ==
    /\ pc = "idle"
    /\ run = 0
    /\ loc = [i \in InstrumentSet |-> NoLocals]
    /\ results = None
    /\ cache = NoFile
    /\ ret = [kind |-> "pending", value |-> None]
    /\ probe = NoProbe
    /\ todaySrc = [i \in InstrumentSet |-> "none"]
    /\ filled = {}
    /\ lost = {}
    /\ lastGood = None
    /\ degraded = {}
    /\ spent = 0
    /\ trace = <<>>

Init ==
    /\ mainIdle
    /\ pctCall = None
    /\ priceCall = None
    /\ retryCall = None
    /\ histCall = None
    /\ adapterCall = None

\* a resolver met a provider failure: it had to ask twice, or got nothing
Failed(r) == r.value = None \/ Len(r.calls) > 1

\* the environment may let the calls made for inst fail
CanFail(inst) == inst \in degraded \/ Cardinality(degraded) + spent < MaxDegraded

\* main() is over: it returned at line 14, 21, 26 or 28, or an exception left it
MainOver ==
    /\ trace # <<>>
    /\ trace[Len(trace)] \in {"stop", "render_failed", "email", "email_failed", "raise"}

\* entry into a call from line 11 of main(): the statements before the try
\* block (lines 336-338); a run of main() starts only when the last one is over
EnterCall ==
    /\ pc = "idle"
    /\ trace = <<>> \/ MainOver
    /\ run < MaxRuns
    /\ run' = run + 1
    /\ loc' = [i \in InstrumentSet |-> NoLocals]
    /\ results' = None
    /\ probe' = NoProbe
    /\ todaySrc' = [i \in InstrumentSet |-> "none"]
    /\ filled' = {}
    /\ lost' = {}
    /\ UNCHANGED pureVars
    /\ UNCHANGED <<cache, lastGood, degraded, spent>>

Begin ==
    /\ EnterCall
    /\ trace' = <<"fetch">>
    /\ pc' = "jse"
    /\ ret' = [kind |-> "pending", value |-> None]

\* CoinGeckoAPI() or datetime.now raises at lines 336-338, outside the try block
ConstructRaises ==
    /\ EnterCall
    /\ trace' = <<"fetch", "raise">>
    /\ pc' = "idle"
    /\ ret' = [kind |-> "raised", value |-> None]

\* the effect shared by the fetch steps that resolve all four values of inst
Resolved(inst, today, d1, d30, ytd, failed) ==
    /\ failed => CanFail(inst)
    /\ loc' = [loc EXCEPT ![inst] =
                  [today |-> today.value, d1 |-> d1.value, d30 |-> d30.value,
                   ytd |-> ytd.value]]
    /\ probe' = [inst |-> inst, todayCalls |-> today.calls, d1 |-> Supplier(d1),
                 d30 |-> Supplier(d30), ytd |-> Supplier(ytd)]
    /\ todaySrc' = [todaySrc EXCEPT ![inst] = Supplier(today)]
    /\ degraded' = IF failed THEN degraded \cup {inst} ELSE degraded
    /\ pc' = After(pc)
    /\ trace' = Append(trace, pc)
    /\ UNCHANGED pureVars
    /\ UNCHANGED <<run, results, cache, ret, filled, lost, lastGood, spent>>

Candidates(key) == {TICKERS[key]} \cup {FALLBACKS[key][j] : j \in DOMAIN FALLBACKS[key]}

\* The environment of one fetch step.  Yahoo serves a ticker through two
\* endpoints, the quote (fast_info / info) and the daily history; an endpoint
\* that is down for a ticker is down for every call the step makes to it.  The
\* year window of _yf_ytd_first_close can also come back without a bar on or
\* after January 1 although the history endpoint answers.
\* A ticker behind the primary P is asked only when P does not answer, so with
\* P up the others are taken as up.
Outages(P, T) == {up \in SUBSET T : P \in up => up = T}

\* the answers Yahoo gives for the tickers in T
YfLatest(T, quoteUp) == [t \in T |-> IF t \in quoteUp THEN Some(Quote(t, run)) ELSE None]
YfHist(T, histUp) ==
    [x \in T \X {1, 30, days_from_ytd} |->
        IF x[1] \in histUp THEN Some(Close(x[2])) ELSE None]
YfYtd(T, histUp, window) ==
    [t \in T |-> IF t \in histUp /\ window THEN Some(FirstCloseOfYear) ELSE None]

\* lines 342-349
FetchJSE ==
    /\ pc = "jse"
    /\ LET T == Candidates("JSE")
           P == TICKERS["JSE"]
           F == FALLBACKS["JSE"]
       IN  \E quoteUp \in Outages(P, T), histUp \in Outages(P, T), window \in BOOLEAN :
             LET yf_hist == YfHist(T, histUp)
                 jse_today == _get_price_with_fallback(P, F, YfLatest(T, quoteUp))
                 jse_1d == _get_hist_with_fallback(P, 1, F, yf_hist)
                 jse_30d == _get_hist_with_fallback(P, 30, F, yf_hist)
                 first == _get_ytd_with_fallback(P, F, YfYtd(T, histUp, window))
                 last == _get_hist_with_fallback(P, days_from_ytd, F, yf_hist)
                 jse_ytd == IF first.value = None THEN last ELSE first
             IN  Resolved("JSEALSHARE", jse_today, jse_1d, jse_30d, jse_ytd,
                          Failed(jse_today) \/ Failed(jse_1d) \/ Failed(jse_30d)
                              \/ Failed(jse_ytd) \/ Failed(first))

\* lines 352-354, one pair at a time
FetchFxToday(pair) ==
    /\ pc = "today_" \o pair
    /\ LET t == FxPairs[pair].ticker
       IN  \E quoteUp \in SUBSET {t}, fx_latest \in {None, Some(Quote(EXHOST, run))} :
             LET today == _get_fx_pair_with_fallback(t, YfLatest({t}, quoteUp), fx_latest)
             IN  /\ Failed(today) => CanFail(pair)
                 /\ loc' = [loc EXCEPT ![pair].today = today.value]
                 /\ probe' = [NoProbe EXCEPT !.inst = pair, !.todayCalls = today.calls]
                 /\ todaySrc' = [todaySrc EXCEPT ![pair] = Supplier(today)]
                 /\ degraded' = IF Failed(today) THEN degraded \cup {pair} ELSE degraded
    /\ pc' = After(pc)
    /\ trace' = Append(trace, pc)
    /\ UNCHANGED pureVars
    /\ UNCHANGED <<run, results, cache, ret, filled, lost, lastGood, spent>>

\* lines 367-377, one pair at a time; exchangerate.host's date endpoint is up
\* or down for the three dates alike
FetchFxHist(pair) ==
    /\ pc = "hist_" \o pair
    /\ LET t == FxPairs[pair].ticker
       IN  \E histUp \in SUBSET {t}, window \in BOOLEAN, exhostUp \in BOOLEAN :
             LET yf_hist == YfHist({t}, histUp)
                 on(v) == IF exhostUp THEN Some(v) ELSE None
                 d1 == fx_hist(t, 1, yf_hist, on(Close(1)))
                 d30 == fx_hist(t, 30, yf_hist, on(Close(30)))
                 ytd == fx_ytd_ref(t, YfYtd({t}, histUp, window), on(FirstCloseOfYear))
                 failed == Failed(d1) \/ Failed(d30) \/ Failed(ytd)
             IN  /\ failed => CanFail(pair)
                 /\ loc' = [loc EXCEPT ![pair].d1 = d1.value, ![pair].d30 = d30.value,
                                       ![pair].ytd = ytd.value]
                 /\ probe' = [inst |-> pair, todayCalls |-> <<>>, d1 |-> Supplier(d1),
                              d30 |-> Supplier(d30), ytd |-> Supplier(ytd)]
                 /\ degraded' = IF failed THEN degraded \cup {pair} ELSE degraded
    /\ pc' = After(pc)
    /\ trace' = Append(trace, pc)
    /\ UNCHANGED pureVars
    /\ UNCHANGED <<run, results, cache, ret, todaySrc, filled, lost, lastGood, spent>>

\* lines 380-394: BRENT, GOLD and SP500 are resolved by the same four calls
FetchSeries(inst) ==
    /\ pc = inst
    /\ LET T == Candidates(TickerKey[inst])
           P == TICKERS[TickerKey[inst]]
           F == FALLBACKS[TickerKey[inst]]
       IN  \E quoteUp \in Outages(P, T), histUp \in Outages(P, T), window \in BOOLEAN :
             LET yf_hist == YfHist(T, histUp)
                 today == _get_price_with_fallback(P, F, YfLatest(T, quoteUp))
                 d1 == _get_hist_with_fallback(P, 1, F, yf_hist)
                 d30 == _get_hist_with_fallback(P, 30, F, yf_hist)
                 ytd == _get_ytd_with_fallback(P, F, YfYtd(T, histUp, window))
             IN  Resolved(inst, today, d1, d30, ytd,
                          Failed(today) \/ Failed(d1) \/ Failed(d30) \/ Failed(ytd))

\* the call is over: its failures are charged to the behaviour's budget
Settle ==
    /\ spent' = spent + Cardinality(degraded)
    /\ degraded' = {}

\* lines 473-476: the handler drops what the call had computed and answers
\* from the cache file
Handler ==
    /\ ret' = [kind |-> "returned", value |-> _load_cache(cache)]
    /\ pc' = "idle"
    /\ loc' = [i \in InstrumentSet |-> NoLocals]
    /\ results' = None
    /\ probe' = NoProbe
    /\ todaySrc' = [i \in InstrumentSet |-> "none"]
    /\ trace' = Append(trace, "except")
    /\ Settle
    /\ UNCHANGED pureVars
    /\ UNCHANGED <<run, cache, filled, lost, lastGood>>

\* a spot-price lookup without the try/except of lines 397-400: CoinGecko's
\* failure reaches the handler of fetch_market_data
FetchBitcoin_unguarded ==
    /\ pc = "btc"
    /\ \E spotUp \in BOOLEAN, rangeUp \in BOOLEAN :
         LET asked(up, v) == [value |-> IF up THEN Some(v) ELSE None,
                              calls |-> <<COINGECKO>>]
         IN  IF spotUp
             THEN Resolved("BITCOINZAR", asked(spotUp, Quote(COINGECKO, run)),
                           asked(rangeUp, Close(1)), asked(rangeUp, Close(30)),
                           asked(rangeUp, FirstCloseOfYear), ~rangeUp)
             ELSE CanFail("BITCOINZAR") /\ Handler

\* lines 397-403: the spot price and the range history are CoinGecko's two
\* endpoints; every value comes from CoinGecko or is None
FetchBitcoin ==
    /\ pc = "btc"
    /\ \E spotUp \in BOOLEAN, rangeUp \in BOOLEAN :
         LET asked(up, v) == [value |-> IF up THEN Some(v) ELSE None,
                              calls |-> <<COINGECKO>>]
         IN  Resolved("BITCOINZAR", asked(spotUp, Quote(COINGECKO, run)),
                      asked(rangeUp, Close(1)), asked(rangeUp, Close(30)),
                      asked(rangeUp, FirstCloseOfYear),
                      ~spotUp \/ ~rangeUp)

\* one section of the results dict, lines 408-455
Section(l) ==
    [Today |-> l.today,
     Change |-> calculate_percentage(l.d1, l.today),
     Monthly |-> calculate_percentage(l.d30, l.today),
     YTD |-> calculate_percentage(l.ytd, l.today)]

\* a guard that looks at the equity index alone
core_ok_index_only(res) == res.rows["JSEALSHARE"].Today # None

\* line 459
core_ok(res) == \A k \in Core : res.rows[k].Today # None

\* a merge that takes the whole cached section for an instrument without Today
backfill_whole_section(partial, cached) ==
    [partial EXCEPT !.rows =
        [key \in DOMAIN partial.rows |->
            IF partial.rows[key].Today = None /\ cached.rows[key].Today # None
            THEN cached.rows[key]
            ELSE partial.rows[key]]]

\* the loop of lines 466-470
backfill(partial, cached) ==
    [partial EXCEPT !.rows =
        [key \in DOMAIN partial.rows |->
            IF partial.rows[key].Today = None /\ cached.rows[key].Today # None
            THEN [partial.rows[key] EXCEPT !.Today = cached.rows[key].Today]
            ELSE partial.rows[key]]]

\* lines 406-459: build results and evaluate the guard
Assemble ==
    /\ pc = "assemble"
    /\ LET res == [timestamp |-> run, rows |-> [i \in InstrumentSet |-> Section(loc[i])]]
       IN  /\ results' = Some(res)
           /\ lastGood' = IF \A k \in Core : loc[k].today # None THEN Some(res) ELSE lastGood
    /\ pc' = "finish"
    /\ trace' = Append(trace, "assemble")
    /\ UNCHANGED pureVars
    /\ UNCHANGED <<run, loc, cache, ret, probe, todaySrc, filled, lost, degraded, spent>>

\* the instruments for which the file held a Today and the snapshot written
\* over it holds none
Erased(file, data) ==
    {i \in InstrumentSet :
        /\ _load_cache(file) # None
        /\ _load_cache(file)[1].rows[i].Today # None
        /\ data.rows[i].Today = None}

\* a write after which the bitcoin lookups run once more
SaveCache_refetches ==
    /\ pc = "finish"
    /\ core_ok(results[1])
    /\ cache' = _save_cache(results[1])
    /\ lost' = Erased(cache, results[1])
    /\ trace' = Append(trace, "save")
    /\ IF \E k \in DOMAIN trace : trace[k] = "save"
       THEN /\ ret' = [kind |-> "returned", value |-> results]
            /\ pc' = "idle"
            /\ Settle
       ELSE /\ pc' = "btc"
            /\ UNCHANGED <<ret, degraded, spent>>
    /\ UNCHANGED pureVars
    /\ UNCHANGED <<run, loc, results, probe, todaySrc, filled, lastGood>>

\* a write that first fills the rows without Today from the file, as the
\* other branch does
SaveCache_fills_gaps ==
    /\ pc = "finish"
    /\ core_ok(results[1])
    /\ LET c == _load_cache(cache)
           merged == IF c # None THEN backfill(results[1], c[1]) ELSE results[1]
       IN  /\ results' = Some(merged)
           /\ cache' = _save_cache(merged)
           /\ lost' = Erased(cache, merged)
           /\ ret' = [kind |-> "returned", value |-> Some(merged)]
    /\ pc' = "idle"
    /\ trace' = Append(trace, "save")
    /\ Settle
    /\ UNCHANGED pureVars
    /\ UNCHANGED <<run, loc, probe, todaySrc, filled, lastGood>>

\* lines 460-461 and 471
SaveCache ==
    /\ pc = "finish"
    /\ core_ok(results[1])
    /\ cache' = _save_cache(results[1])
    /\ lost' = Erased(cache, results[1])
    /\ ret' = [kind |-> "returned", value |-> results]
    /\ pc' = "idle"
    /\ trace' = Append(trace, "save")
    /\ Settle
    /\ UNCHANGED pureVars
    /\ UNCHANGED <<run, loc, results, probe, todaySrc, filled, lastGood>>

\* lines 460-461 and 471 when the write raises inside _save_cache: line 235
\* swallows the exception and the call returns `results`
SaveCacheFails ==
    /\ pc = "finish"
    /\ core_ok(results[1])
    /\ \E left \in _save_cache_raises(cache) :
          /\ cache' = left
          /\ lost' = {i \in InstrumentSet :
                         /\ _load_cache(cache) # None
                         /\ _load_cache(cache)[1].rows[i].Today # None
                         /\ _load_cache(left) = None}
    /\ ret' = [kind |-> "returned", value |-> results]
    /\ pc' = "idle"
    /\ trace' = Append(trace, "save_failed")
    /\ Settle
    /\ UNCHANGED pureVars
    /\ UNCHANGED <<run, loc, results, probe, todaySrc, filled, lastGood>>

\* a backfill after which the percentages are computed again, from the Today
\* the cache supplied
Backfill_recomputes ==
    /\ pc = "finish"
    /\ ~core_ok(results[1])
    /\ LET c == _load_cache(cache)
           merged == IF c # None THEN backfill(results[1], c[1]) ELSE results[1]
           again == [merged EXCEPT !.rows =
                        [i \in InstrumentSet |->
                            Section([loc[i] EXCEPT !.today = merged.rows[i].Today])]]
       IN  /\ results' = Some(again)
           /\ filled' = {i \in InstrumentSet : merged.rows[i] # results[1].rows[i]}
           /\ ret' = [kind |-> "returned", value |-> Some(again)]
    /\ pc' = "idle"
    /\ trace' = Append(trace, "backfill")
    /\ Settle
    /\ UNCHANGED pureVars
    /\ UNCHANGED <<run, loc, cache, lost, probe, todaySrc, lastGood>>

\* lines 462-471
Backfill ==
    /\ pc = "finish"
    /\ ~core_ok(results[1])
    /\ LET c == _load_cache(cache)
           merged == IF c # None THEN backfill(results[1], c[1]) ELSE results[1]
       IN  /\ results' = Some(merged)
           /\ filled' = {i \in InstrumentSet : merged.rows[i] # results[1].rows[i]}
           /\ ret' = [kind |-> "returned", value |-> Some(merged)]
    /\ pc' = "idle"
    /\ trace' = Append(trace, "backfill")
    /\ Settle
    /\ UNCHANGED pureVars
    /\ UNCHANGED <<run, loc, cache, lost, probe, todaySrc, lastGood>>

\* something unforeseen raised inside the try block
Crash ==
    /\ pc \in InTry
    /\ Handler

\* ---------------------------------------------------------------------- main
\* `not market_data` at line 12 of main(): None is falsy, a snapshot is a dict
\* with a timestamp and eight sections and so is truthy
Falsy(market_data) == market_data = None

\* fetch_market_data has returned to line 11 of main() and main() stands there
AtGate ==
    /\ pc = "idle"
    /\ ret.kind = "returned"
    /\ trace # <<>>
    /\ trace[Len(trace)] \in {"save", "save_failed", "backfill", "except"}

MainStep(event) ==
    /\ trace' = Append(trace, event)
    /\ UNCHANGED pureVars
    /\ UNCHANGED <<pc, run, loc, results, cache, ret, probe, todaySrc, filled, lost,
                   lastGood, degraded, spent>>

\* main.py lines 12-14
MainStops ==
    /\ AtGate
    /\ Falsy(ret.value)
    /\ MainStep("stop")

\* a main() that renders whatever fetch_market_data returned
Render_ungated ==
    /\ AtGate
    /\ MainStep("render")

\* main.py lines 17-18: generate_infographic returns a file name
Render ==
    /\ AtGate
    /\ ~Falsy(ret.value)
    /\ MainStep("render")

\* main.py lines 19-21: generate_infographic raises
RenderFails ==
    /\ AtGate
    /\ ~Falsy(ret.value)
    /\ MainStep("render_failed")

\* main.py lines 24-26: send_report_email returns
Email ==
    /\ trace # <<>>
    /\ trace[Len(trace)] = "render"
    /\ MainStep("email")

\* main.py lines 27-28: send_report_email raises
EmailFails ==
    /\ trace # <<>>
    /\ trace[Len(trace)] = "render"
    /\ MainStep("email_failed")

Next ==
    \/ Begin
    \/ ConstructRaises
    \/ FetchJSE
    \/ \E pair \in DOMAIN FxPairs : FetchFxToday(pair)
    \/ \E pair \in DOMAIN FxPairs : FetchFxHist(pair)
    \/ \E inst \in {"BRENT", "GOLD", "SP500"} : FetchSeries(inst)
    \/ FetchBitcoin
    \/ Assemble
    \/ SaveCache
    \/ Backfill
    \/ Crash
    \/ MainStops
    \/ Render
    \/ RenderFails
    \/ Email
    \/ EmailFails

vars == <<mainVars, pureVars>>

Spec == Init /\ [][Next]_vars

\* the runs in which providers fail, by answering nothing or by raising inside
\* a lookup, and nothing else goes wrong
NextOutage ==
    \/ Begin
    \/ FetchJSE
    \/ \E pair \in DOMAIN FxPairs : FetchFxToday(pair)
    \/ \E pair \in DOMAIN FxPairs : FetchFxHist(pair)
    \/ \E inst \in {"BRENT", "GOLD", "SP500"} : FetchSeries(inst)
    \/ FetchBitcoin
    \/ Assemble
    \/ SaveCache
    \/ Backfill
    \/ Render
    \/ RenderFails
    \/ Email
    \/ EmailFails

SpecOutage == Init /\ [][NextOutage]_vars

\* the runs in which, besides, the write of the cache file can fail
NextWrite ==
    \/ Next
    \/ SaveCacheFails

SpecWrite == Init /\ [][NextWrite]_vars

\* ---------------------------------------------------------------------------
\* Properties of fetch_market_data (specification Spec)
\* ---------------------------------------------------------------------------

\* the call has returned `results` (line 471)
ReturnedResults == pc = "idle" /\ ret.kind = "returned" /\ results # None

\* the call has returned from the except handler (line 476)
ReturnedFromHandler == pc = "idle" /\ ret.kind = "returned" /\ results = None /\ run > 0

\* the section the current run computes for instrument i from its own lookups
Fresh(i) == Section(loc[i])

\* the last fetch step resolved the anchors of probe.inst
AnchorsResolved == probe.d1 # "unset"

\* C1: every anchor of an instrument is supplied by the candidate that supplied
\* its Today price; no row takes Today from one candidate and an anchor from
\* another.
C1_AnchorsFromTodayCandidate ==
    (AnchorsResolved /\ todaySrc[probe.inst] # "none") =>
        \A a \in {probe.d1, probe.d30, probe.ytd} : a \in {"none", todaySrc[probe.inst]}

\* C3: for a currency pair, exchangerate.host is asked for Today only after
\* Yahoo gave none; when Today is exchangerate.host's, every anchor that was
\* found is exchangerate.host's too, and when Today is Yahoo's none of them is.
C3_FxSingleProvider ==
    /\ (probe.inst \in DOMAIN FxPairs /\ ~AnchorsResolved /\ EXHOST \in
            {probe.todayCalls[k] : k \in DOMAIN probe.todayCalls}) =>
          /\ probe.todayCalls = <<FxPairs[probe.inst].ticker, EXHOST>>
          /\ todaySrc[probe.inst] # FxPairs[probe.inst].ticker
    /\ (probe.inst \in DOMAIN FxPairs /\ AnchorsResolved) =>
          LET anchors == {probe.d1, probe.d30, probe.ytd}
          IN  /\ todaySrc[probe.inst] = EXHOST => anchors \subseteq {EXHOST, "none"}
              /\ todaySrc[probe.inst] = FxPairs[probe.inst].ticker => EXHOST \notin anchors

\* C4: an instrument for which every candidate and provider failed, and whose
\* Today was not taken from the cache, is returned with Today, Change, Monthly
\* and YTD null and with source "unavailable".
C4_UnavailableRowIsNull ==
    ReturnedResults =>
        \A i \in InstrumentSet :
            (loc[i] = NoLocals /\ i \notin filled) =>
                LET row == ret.value[1].rows[i]
                IN  /\ row.Today = None
                    /\ row.Change = None
                    /\ row.Monthly = None
                    /\ row.YTD = None
                    /\ "source" \in DOMAIN row
                    /\ row["source"] = "unavailable"

C8_BackfillOnlyToday ==
    (ReturnedResults /\ (\E k \in Core : loc[k].today = None) /\ cache.exists) =>
        /\ ret.value[1].timestamp = run
        /\ \A i \in InstrumentSet :
              LET out == ret.value[1].rows[i]
                  cached == cache.text[1].rows[i]
              IN  IF Fresh(i).Today = None /\ cached.Today # None
                  THEN out = [Fresh(i) EXCEPT !.Today = cached.Today]
                  ELSE out = Fresh(i)

C8_Witness ==
    /\ ReturnedResults
    /\ filled # {}
    /\ \E i \in InstrumentSet :
          /\ Fresh(i).Today = None
          /\ ret.value[1].rows[i].Today = cache.text[1].rows[i].Today
          /\ ret.value[1].rows[i].Today # None
          /\ cache.text[1].rows[i].Change # Zero
          /\ ret.value[1].rows[i].Change = Zero

\* the percentages of a returned snapshot are the ones this run computed
PercentagesAreFresh(snapshot) ==
    \A i \in InstrumentSet :
        /\ snapshot.rows[i].Change = Fresh(i).Change
        /\ snapshot.rows[i].Monthly = Fresh(i).Monthly
        /\ snapshot.rows[i].YTD = Fresh(i).YTD

\* C9, as claimed: on every return path the percentages of the returned
\* snapshot are the ones computed in the current run, never the cache's.
C9_NoCachedPercentagesAnyPath ==
    (pc = "idle" /\ ret.kind = "returned" /\ ret.value # None) =>
        PercentagesAreFresh(ret.value[1])

\* C9, amended: when the call returns `results` (normal or backfilled) the
\* percentages are the ones computed in the current run; when it returns from
\* the except handler it returns the cached snapshot whole.
C9_NoCachedPercentagesInResults ==
    /\ ReturnedResults => PercentagesAreFresh(ret.value[1])
    /\ ReturnedFromHandler => ret.value = _load_cache(cache)

C9_Witness ==
    /\ ReturnedResults
    /\ \E i \in filled :
          /\ cache.text[1].rows[i].Monthly # Zero
          /\ ret.value[1].rows[i].Monthly = Zero

\* C10: no exception leaves fetch_market_data; after one, the call returns what
\* _load_cache gives (the cached snapshot, or None).
C10_NothingPropagates ==
    /\ ret.kind # "raised"
    /\ ReturnedFromHandler => ret.value = _load_cache(cache)

\* C11: a run that leaves the Today of a core instrument unresolved while no
\* cache file exists returns no snapshot from fetch_market_data, and main()
\* then stops: it neither renders the infographic nor sends the email.
C11_TotalFailureStopsMain ==
    (pc = "idle" /\ ret.kind = "returned" /\ ~cache.exists
        /\ "assemble" \in {trace[k] : k \in DOMAIN trace}
        /\ \E k \in Core : loc[k].today = None) =>
            /\ ret.value = None
            /\ \A k \in DOMAIN trace : trace[k] \notin {"render", "email"}

\* C12: in a snapshot computed by the current run the Change of JSEALSHARE is
\* null or at most 12 in absolute value; a 1-day figure beyond 12 is never
\* reported.
C12_GuardedChangeWithinThreshold ==
    (ReturnedResults /\ loc["JSEALSHARE"].today # None) =>
        LET change == ret.value[1].rows["JSEALSHARE"].Change
        IN  change # None => Abs(change[1]) <= 12 * change[2]

\* the instrument whose locals the fetch step at p assigns
Owner(p) ==
    CASE p = "jse" -> "JSEALSHARE"
      [] p = "btc" -> "BITCOINZAR"
      [] p \in {"today_USDZAR", "hist_USDZAR"} -> "USDZAR"
      [] p \in {"today_EURZAR", "hist_EURZAR"} -> "EURZAR"
      [] p \in {"today_GBPZAR", "hist_GBPZAR"} -> "GBPZAR"
      [] OTHER -> p

\* every call that has begun and ended has returned `results`, after every
\* statement of the try block ran, with the rows of the instruments whose own
\* Today resolved as this run's lookups for them give them
C16_EveryRowOnItsOwn ==
    /\ ret.kind # "raised"
    /\ (pc = "idle" /\ run > 0) =>
          /\ ReturnedResults
          /\ \A k \in DOMAIN PcOrder : \E n \in DOMAIN trace : trace[n] = PcOrder[k]
          /\ \A j \in InstrumentSet :
                Fresh(j).Today # None => ret.value[1].rows[j] = Fresh(j)

\* a fetch step assigns the locals of its own instrument only
C16_StepOnItsOwn ==
    \A j \in InstrumentSet : (loc'[j] # loc[j]) => (pc = "idle" \/ j = Owner(pc))

\* C16: when every candidate and provider of an instrument fails, by returning
\* nothing or by raising inside a lookup, the call raises nothing and runs to
\* its end, and each other instrument whose own Today resolved is returned
\* with the Today and percentages its own lookups give, whatever happened to
\* the failing one.
C16_UnavailabilityIsContained == []C16_EveryRowOnItsOwn /\ [][C16_StepOnItsOwn]_vars

C16_Witness ==
    /\ ReturnedResults
    /\ loc["USDZAR"] = NoLocals
    /\ ret.value[1].rows["USDZAR"].Today = None
    /\ \A j \in InstrumentSet \ {"USDZAR"} :
          /\ ret.value[1].rows[j].Today # None
          /\ ret.value[1].rows[j].Change # Zero
          /\ ret.value[1].rows[j] = Fresh(j)

\* the positions of the current run's trace at which the cache was written
Writes == {k \in DOMAIN trace : trace[k] = "save"}

\* in a run the cache is written at most once, after every statement of the
\* try block, and no lookup follows the write
C19_OneWriteAtTheEnd ==
    /\ Cardinality(Writes) <= 1
    /\ \A w \in Writes :
          /\ \A p \in DOMAIN PcOrder : \E k \in 1..(w - 1) : trace[k] = PcOrder[p]
          /\ \A k \in (w + 1)..Len(trace) : trace[k] \in {"render", "render_failed",
                                                         "email", "email_failed"}
          /\ pc = "idle"

\* the cache file changes only in the step that writes it
C19_OnlyTheWriteWrites == (cache' # cache) => (trace' = Append(trace, "save"))

\* C19: a run of fetch_market_data writes the cache file at most once, and only
\* after the Today and anchor lookups of every instrument are over; no
\* provider call follows the write.
C19_CacheWrittenOnceAfterAll == []C19_OneWriteAtTheEnd /\ [][C19_OnlyTheWriteWrites]_vars

C19_Witness ==
    /\ run = 2
    /\ pc = "idle"
    /\ Writes # {}
    /\ cache.text[1].timestamp = 2
    /\ trace[Len(trace)] = "email"

\* the current run found the Today of every core instrument
CoreFound == \A k \in Core : loc[k].today # None

\* C21: in every snapshot returned on the backfill path, a row whose Today was
\* null when the percentages were computed and was then filled from the cache
\* has Change = Monthly = YTD = 0.0; a backfilled Today never stands beside a
\* percentage that is not zero.
C21_BackfilledRowHasZeroPercentages ==
    (ReturnedResults /\ ~CoreFound) =>
        \A i \in InstrumentSet :
            LET out == ret.value[1].rows[i]
            IN  (loc[i].today = None /\ out.Today # None) =>
                    /\ i \in filled
                    /\ out.Change = Zero
                    /\ out.Monthly = Zero
                    /\ out.YTD = Zero

\* a row is backfilled although its three anchors were found in this run, and
\* the cached Today differs from each of them
C21_Witness ==
    /\ ReturnedResults
    /\ trace[Len(trace)] = "backfill"
    /\ \E i \in filled :
          LET out == ret.value[1].rows[i]
          IN  /\ loc[i].today = None
              /\ out.Today = cache.text[1].rows[i].Today
              /\ \A a \in {loc[i].d1, loc[i].d30, loc[i].ytd} : a # None /\ a # out.Today
              /\ out.Change = Zero /\ out.Monthly = Zero /\ out.YTD = Zero

\* the snapshot the current run assembles from its own lookups
FreshSnapshot == [timestamp |-> run, rows |-> [i \in InstrumentSet |-> Fresh(i)]]

\* the instruments outside the core whose Today the current run did not find
Gaps == {i \in InstrumentSet \ Core : loc[i].today = None}

\* a run that finds every core Today returns the snapshot it computed, gaps
\* included, without reading the cache, and the file then holds that snapshot
C22_GapIsReturnedAndWritten ==
    (ReturnedResults /\ CoreFound) =>
        /\ \A k \in DOMAIN trace : trace[k] \notin {"backfill", "except"}
        /\ filled = {}
        /\ ret.value = Some(FreshSnapshot)
        /\ _load_cache(cache) = ret.value
        /\ \A i \in Gaps :
              /\ ret.value[1].rows[i].Today = None
              /\ cache.text[1].rows[i].Today = None

\* the write puts the snapshot over the file whatever the file held
C22_WriteErasesGap ==
    (pc = "finish" /\ core_ok(results[1]) /\ pc' = "idle") =>
        /\ ret'.value = results
        /\ _load_cache(cache') = results
        /\ \A i \in InstrumentSet \ Core :
              (results[1].rows[i].Today = None /\ _load_cache(cache) # None) =>
                  /\ ret'.value[1].rows[i].Today = None
                  /\ _load_cache(cache')[1].rows[i].Today = None

At(events) == {k \in DOMAIN trace : trace[k] \in events}

\* C23: in a run of main() the steps come in the order fetch, render, email:
\* generate_infographic is called only right after fetch_market_data returned
\* a snapshot that is not empty, send_report_email only right after
\* generate_infographic returned a file name, each at most once, nothing
\* follows the email or a failed step, and no exception of the rendering or
\* of the email leaves main().
C23_MainStepsInOrderAndGated ==
    /\ trace # <<>> => At({"fetch"}) = {1}
    /\ \A k \in At({"render", "render_failed"}) :
          /\ trace[k - 1] \in {"save", "backfill", "except"}
          /\ pc = "idle" /\ ret.kind = "returned"
          /\ ~Falsy(ret.value)
    /\ \A k \in At({"email", "email_failed"}) : trace[k - 1] = "render"
    /\ \A k \in At({"stop", "render_failed", "email", "email_failed"}) : k = Len(trace)
    /\ Cardinality(At({"render", "render_failed"})) <= 1
    /\ Cardinality(At({"email", "email_failed"})) <= 1
    /\ At({"raise"}) # {} => trace = <<"fetch", "raise">>

\* a second run of main() renders, and its email is refused
C23_Witness ==
    /\ run = 2
    /\ Len(trace) > 2
    /\ trace[Len(trace)] = "email_failed"
    /\ trace[Len(trace) - 1] = "render"
    /\ ~Falsy(ret.value)

\* ---------------------------------------------------------------------------
\* calculate_percentage on its own (specification SpecPct)
\* ---------------------------------------------------------------------------
Prices == {None} \cup {Some(v) : v \in (0 - MaxAbs)..MaxAbs}

InitPct ==
    /\ mainIdle
    /\ priceCall = None
    /\ retryCall = None
    /\ histCall = None
    /\ adapterCall = None
    /\ \E old \in Prices, new \in Prices :
         pctCall = [old |-> old, new |-> new, done |-> FALSE, out |-> Zero]

CallPct ==
    /\ ~pctCall.done
    /\ pctCall' = [pctCall EXCEPT !.done = TRUE,
                                  !.out = calculate_percentage(pctCall.old, pctCall.new)]
    /\ UNCHANGED <<mainVars, priceCall, retryCall, histCall, adapterCall>>

SpecPct == InitPct /\ [][CallPct]_vars

\* C6: calculate_percentage returns 0.0 when old is None, new is None or old is
\* 0, and otherwise the number p with p * old = 100 * (new - old), which is
\* (new/old - 1) * 100; so it is 0.0 for old = new # 0.
C6_PercentageTotal ==
    pctCall.done =>
        LET old == pctCall.old
            new == pctCall.new
            out == pctCall.out
        IN  /\ out[2] > 0
            /\ IF old = None \/ new = None THEN out = Zero
               ELSE IF old[1] = 0 THEN out = Zero
               ELSE /\ out[1] * old[1] = 100 * (new[1] - old[1]) * out[2]
                    /\ (old = new => out = Zero)

C6_Witness ==
    /\ pctCall.done
    /\ pctCall.old = Some(4)
    /\ pctCall.new = Some(5)
    /\ pctCall.out = <<25, 1>>

\* ---------------------------------------------------------------------------
\* _get_price_with_fallback on its own (specification SpecPrice)
\* ---------------------------------------------------------------------------
\* tickers to draw the primary and the fallbacks from
Pool == {"a1", "a2", "a3", "a4"}

\* tuples of distinct tickers of T, no longer than n
RECURSIVE Tuples(_, _)
Tuples(T, n) ==
    IF n = 0 THEN {<<>>}
    ELSE {<<>>} \cup UNION {{<<t>> \o rest : rest \in Tuples(T \ {t}, n - 1)} : t \in T}

InitPrice ==
    /\ mainIdle
    /\ pctCall = None
    /\ retryCall = None
    /\ histCall = None
    /\ adapterCall = None
    /\ \E primary \in {"a1", "a2"} :
       \E fallbacks \in Tuples(Pool \ {primary}, MaxFallbacks) :
       \E yf_latest \in [Pool -> {None, Some(7), Some(9)}] :
         priceCall = [primary |-> primary, fallbacks |-> fallbacks,
                      yf_latest |-> yf_latest, done |-> FALSE,
                      out |-> [value |-> None, calls |-> <<>>]]

CallPrice ==
    /\ ~priceCall.done
    /\ priceCall' = [priceCall EXCEPT
                        !.done = TRUE,
                        !.out = _get_price_with_fallback(priceCall.primary,
                                    priceCall.fallbacks, priceCall.yf_latest)]
    /\ UNCHANGED <<mainVars, pctCall, retryCall, histCall, adapterCall>>

SpecPrice == InitPrice /\ [][CallPrice]_vars

\* C2: _get_price_with_fallback returns the latest price of the first candidate
\* (primary, then the fallbacks in order) that has one and asks no candidate
\* after it; it returns None only when every candidate has none.
C2_FirstCandidateWins ==
    priceCall.done =>
        LET c == <<priceCall.primary>> \o priceCall.fallbacks
            hits == {k \in DOMAIN c : priceCall.yf_latest[c[k]] # None}
            out == priceCall.out
        IN  IF hits = {} THEN out.value = None /\ out.calls = c
            ELSE LET k == CHOOSE h \in hits : \A g \in hits : h <= g
                 IN  /\ out.value = priceCall.yf_latest[c[k]]
                     /\ out.calls = SubSeq(c, 1, k)

C2_Witness ==
    /\ priceCall.done
    /\ Len(priceCall.fallbacks) = 2
    /\ priceCall.yf_latest[priceCall.primary] = None
    /\ priceCall.yf_latest[priceCall.fallbacks[1]] = Some(7)
    /\ priceCall.yf_latest[priceCall.fallbacks[2]] = Some(9)
    /\ priceCall.out.value = Some(7)
    /\ Len(priceCall.out.calls) = 2

\* ---------------------------------------------------------------------------
\* _retry on its own (specification SpecRetry)
\* ---------------------------------------------------------------------------
\* what the wrapped function may return, and what it may raise
Values == {"v1", "v2"}
Exceptions == {"E1", "E2"}

\* the delay and backoff arguments tried: the module's policy and one other
Delays == {RETRY_DELAY, <<1, 2>>}
Backoffs == {RETRY_BACKOFF, <<2, 1>>}

\* product of two floats
Times(a, b) == Float(a[1] * b[1], a[2] * b[2])

\* wrap(*args) just entered: d = delay, last_exc = None (lines 49-50)
InitRetry ==
    /\ mainIdle
    /\ pctCall = None
    /\ priceCall = None
    /\ histCall = None
    /\ adapterCall = None
    /\ \E n \in 0..MaxAttempts, delay \in Delays, backoff \in Backoffs :
         retryCall = [n |-> n, delay |-> delay, backoff |-> backoff,
                      pc |-> "loop", i |-> 0, d |-> delay, last_exc |-> None,
                      log |-> <<>>, slept |-> <<>>,
                      result |-> [kind |-> "pending", val |-> None]]

RetryIdle == UNCHANGED <<mainVars, pctCall, priceCall, histCall, adapterCall>>

\* lines 51-53: an iteration calls fn and fn returns
AttemptReturns ==
    /\ retryCall.pc = "loop"
    /\ retryCall.i < retryCall.n
    /\ \E v \in Values :
         retryCall' = [retryCall EXCEPT
                          !.log = Append(@, [kind |-> "return", val |-> v]),
                          !.result = [kind |-> "returned", val |-> Some(v)],
                          !.pc = "done"]
    /\ RetryIdle

\* lines 51-55: an iteration calls fn and fn raises
AttemptRaises ==
    /\ retryCall.pc = "loop"
    /\ retryCall.i < retryCall.n
    /\ \E e \in Exceptions :
         retryCall' = [retryCall EXCEPT
                          !.log = Append(@, [kind |-> "raise", val |-> e]),
                          !.last_exc = Some(e),
                          !.pc = "sleep"]
    /\ RetryIdle

\* lines 56-57: the handler sleeps, stretches the delay and the loop goes on
Sleep ==
    /\ retryCall.pc = "sleep"
    /\ retryCall' = [retryCall EXCEPT
                        !.slept = Append(@, retryCall.d),
                        !.d = Times(retryCall.d, retryCall.backoff),
                        !.i = @ + 1,
                        !.pc = "loop"]
    /\ RetryIdle

\* a loop end that raises the first exception seen instead of the last
Exhausted_first ==
    /\ retryCall.pc = "loop"
    /\ retryCall.i = retryCall.n
    /\ retryCall' = [retryCall EXCEPT
                        !.result = [kind |-> "raised",
                                    val |-> IF retryCall.log = <<>> THEN Some("TypeError")
                                            ELSE Some(retryCall.log[1].val)],
                        !.pc = "done"]
    /\ RetryIdle

\* line 58: the loop is exhausted; `raise None` is a TypeError
Exhausted ==
    /\ retryCall.pc = "loop"
    /\ retryCall.i = retryCall.n
    /\ retryCall' = [retryCall EXCEPT
                        !.result = [kind |-> "raised",
                                    val |-> IF retryCall.last_exc = None
                                            THEN Some("TypeError")
                                            ELSE retryCall.last_exc],
                        !.pc = "done"]
    /\ RetryIdle

NextRetry ==
    \/ AttemptReturns
    \/ AttemptRaises
    \/ Sleep
    \/ Exhausted

SpecRetry == InitRetry /\ [][NextRetry]_vars

\* C5: a call through _retry(n, ...) invokes the function at most n times; it
\* returns the result of the first invocation that does not raise, every
\* invocation before it having raised and none following it; when all n
\* invocations raise it raises the exception of the last one.
C5_RetryAtMostN ==
    LET c == retryCall
        m == Len(c.log)
    IN  /\ m <= c.n
        /\ \A k \in 1..(m - 1) : c.log[k].kind = "raise"
        /\ c.result.kind = "pending" <=> c.pc # "done"
        /\ c.result.kind = "returned" =>
              /\ c.log[m].kind = "return"
              /\ c.result.val = Some(c.log[m].val)
        /\ (c.result.kind = "raised" /\ c.n > 0) =>
              /\ m = c.n
              /\ c.log[m].kind = "raise"
              /\ c.result.val = Some(c.log[m].val)

C5_Witness ==
    /\ retryCall.n = RETRY_ATTEMPTS
    /\ retryCall.pc = "done"
    /\ retryCall.result = [kind |-> "raised", val |-> Some("E2")]
    /\ Len(retryCall.log) = RETRY_ATTEMPTS
    /\ retryCall.log[1].val = "E1"

\* b to the power k
RECURSIVE Power(_, _)
Power(b, k) == IF k = 0 THEN <<1, 1>> ELSE Times(b, Power(b, k - 1))

\* C17: the k-th sleep lasts delay * backoff^(k-1) and follows the k-th failed
\* attempt, with k < n; there is no sleep after the n-th failed attempt, so a
\* call whose n attempts all fail has slept exactly n - 1 times when it raises.
C17_SleepsOnlyBetweenAttempts ==
    LET c == retryCall
    IN  /\ \A k \in DOMAIN c.slept :
              /\ c.slept[k] = Times(c.delay, Power(c.backoff, k - 1))
              /\ k <= Len(c.log)
              /\ c.log[k].kind = "raise"
              /\ k < c.n
        /\ (c.result.kind = "raised" /\ c.n > 0) => Len(c.slept) = c.n - 1

\* ---------------------------------------------------------------------------
\* The anchor lookups on a provider's series (specification SpecAnchor)
\* ---------------------------------------------------------------------------
Max(a, b) == IF a >= b THEN a ELSE b

\* the daily bar of day d; its close tells the day it belongs to
Bar(d) == [date |-> d, close |-> 100 + d]

RECURSIVE Ascending(_)
Ascending(D) ==
    IF D = {} THEN <<>>
    ELSE LET m == CHOOSE x \in D : \A y \in D : x <= y
         IN  <<m>> \o Ascending(D \ {m})

\* the series a provider holds: one bar per session, oldest first, and, when
\* `dup`, the bar of the last session once more at the end
DailySeries(sessions, dup) ==
    LET days == Ascending(sessions)
        bars == [k \in DOMAIN days |-> Bar(days[k])]
    IN  IF dup /\ bars # <<>> THEN Append(bars, bars[Len(bars)]) ELSE bars

\* trading calendars: every day, or five days a week, less public holidays
Weekdays(phase) == {d \in 0..TodayDate : (d + phase) % 7 \notin {5, 6}}
Holidays == {TodayDate - 30, TodayDate - 1, YearStartDate}
Calendars ==
    {W \ H : W \in {0..TodayDate} \cup {Weekdays(phase) : phase \in 0..6},
             H \in SUBSET Holidays}

\* the sessions of a provider whose history is short
ShortHistories == SUBSET ((TodayDate - MaxSpan)..TodayDate)

\* how a provider call ends: it raises, answers without data, or with data
Kinds == {"raise", "empty", "data"}

\* the bars of series dated from..to
Between(series, from, to) ==
    SelectSeq(series, LAMBDA b : from <= b.date /\ b.date <= to)

\* _yf_history as its callers see it: the call-th query of the lookup, for the
\* bars dated from..to
_yf_history(prov, call, from, to) ==
    IF prov.kinds[call] = "raise" THEN [exc |-> TRUE, df |-> <<>>]
    ELSE IF prov.kinds[call] = "empty" THEN [exc |-> FALSE, df |-> <<>>]
    ELSE [exc |-> FALSE, df |-> Between(DailySeries(prov.sessions, prov.dup), from, to)]

\* a handler that lets the exception go on
Caught_reraise(r) == r

\* `except Exception as e: print(...); return None`
Caught(r) == IF r.exc THEN [exc |-> FALSE, value |-> None] ELSE r

Returns(v) == [exc |-> FALSE, value |-> v]
Raises == [exc |-> TRUE, value |-> None]

\* lines 135-157: the bar `days` bars before the last one, from the period
\* query or else from the explicit window
_yf_historical_close(days, prov) ==
    LET buffer_days == Max(20, days * 3)
        Enough(df) == df # <<>> /\ Len(df) >= days + 1
        first == _yf_history(prov, 1, TodayDate - (days + buffer_days), TodayDate)
        second == _yf_history(prov, 2, TodayDate - (days + Max(30, days * 4)),
                              TodayDate + 1)
    IN  Caught(IF first.exc THEN Raises
               ELSE IF Enough(first.df)
                    THEN Returns(Some(first.df[Len(first.df) - days].close))
               ELSE IF second.exc THEN Raises
               ELSE IF Enough(second.df)
                    THEN Returns(Some(second.df[Len(second.df) - days].close))
               ELSE Returns(None))

\* lines 160-182: the first bar on or after January 1 in the window that runs
\* from 14 days before January 1 to 30 days after it (the end excluded)
_yf_ytd_first_close(prov) ==
    LET r == _yf_history(prov, 1, YearStartDate - 14, YearStartDate + 29)
        ytd == SelectSeq(r.df, LAMBDA b : b.date >= YearStartDate)
    IN  Caught(IF r.exc THEN Raises
               ELSE IF r.df # <<>> /\ ytd # <<>> THEN Returns(Some(ytd[1].close))
               ELSE Returns(None))

\* requests.get(...).json().get("rates", {}).get(quote) for one date, or the
\* exception of requests.get, raise_for_status or json
ExhostRate(prov, date) ==
    IF prov.kinds[1] = "raise" THEN [exc |-> TRUE, rate |-> None]
    ELSE IF prov.kinds[1] = "empty" THEN [exc |-> FALSE, rate |-> None]
    ELSE [exc |-> FALSE, rate |-> Some(Bar(date).close)]

\* lines 203-217
_fx_on_date_exhost(date, prov) ==
    LET data == ExhostRate(prov, date)
    IN  Caught(IF data.exc THEN Raises ELSE Returns(data.rate))

\* cg.get_coin_market_chart_range_by_id(...).get("prices", []): the price
\* points stamped from..to, as [date, close] like the bars
MarketChartRange(prov, from, to) ==
    IF prov.kinds[1] = "raise" THEN [exc |-> TRUE, prices |-> <<>>]
    ELSE IF prov.kinds[1] = "empty" THEN [exc |-> FALSE, prices |-> <<>>]
    ELSE [exc |-> FALSE,
          prices |-> Between(DailySeries(prov.sessions, prov.dup), from, to)]

\* min(prices, key=lambda x: abs(x[0] - target_ms)): the first of the nearest
Closest(prices, target) ==
    LET k == CHOOSE i \in DOMAIN prices :
                 \A j \in DOMAIN prices :
                     /\ Abs(prices[i].date - target) <= Abs(prices[j].date - target)
                     /\ j < i => Abs(prices[j].date - target) > Abs(prices[i].date - target)
    IN  prices[k]

\* lines 301-319; the range asked for is 12 hours either side of the target,
\* which holds the points stamped on the target day
fetch_bitcoin_historical(days, prov) ==
    LET target == TodayDate - days
        history == MarketChartRange(prov, target, target)
    IN  Caught(IF history.exc THEN Raises
               ELSE IF history.prices = <<>> THEN Returns(None)
               ELSE Returns(Some(Closest(history.prices, target).close)))

\* lines 322-331: the first point of the range January 1 .. January 2
get_bitcoin_ytd_price(prov) ==
    LET history == MarketChartRange(prov, YearStartDate, YearStartDate + 1)
    IN  Caught(IF history.exc THEN Raises
               ELSE IF history.prices # <<>> THEN Returns(Some(history.prices[1].close))
               ELSE Returns(None))

\* the lookups, and the values of `days` they are called with: 1 and 30 (lines
\* 343-344, 367-368, 401-402), days_from_ytd (line 349), and 2
Lookups ==
    {"_yf_historical_close", "_yf_ytd_first_close", "_fx_on_date_exhost",
     "fetch_bitcoin_historical", "get_bitcoin_ytd_price"}
Days == {1, 2, 30, days_from_ytd}

InitAnchor ==
    /\ mainIdle
    /\ pctCall = None
    /\ priceCall = None
    /\ retryCall = None
    /\ adapterCall = None
    /\ \E fn \in Lookups, days \in Days, sessions \in Calendars \cup ShortHistories,
          dup \in BOOLEAN, kinds \in [1..2 -> Kinds] :
         /\ fn # "_yf_historical_close" => kinds[2] = "data"
         /\ fn \in {"_yf_ytd_first_close", "get_bitcoin_ytd_price"} => days = 1
         /\ fn = "_fx_on_date_exhost" => sessions = {} /\ ~dup
         /\ histCall = [fn |-> fn, days |-> days,
                        prov |-> [sessions |-> sessions, dup |-> dup, kinds |-> kinds],
                        done |-> FALSE, out |-> Returns(None)]

CallAnchor ==
    /\ ~histCall.done
    /\ LET c == histCall
           out == CASE c.fn = "_yf_historical_close" -> _yf_historical_close(c.days, c.prov)
                    [] c.fn = "_yf_ytd_first_close" -> _yf_ytd_first_close(c.prov)
                    [] c.fn = "_fx_on_date_exhost" ->
                           _fx_on_date_exhost(TodayDate - c.days, c.prov)
                    [] c.fn = "fetch_bitcoin_historical" ->
                           fetch_bitcoin_historical(c.days, c.prov)
                    [] c.fn = "get_bitcoin_ytd_price" -> get_bitcoin_ytd_price(c.prov)
       IN  histCall' = [histCall EXCEPT !.done = TRUE, !.out = out]
    /\ UNCHANGED <<mainVars, pctCall, priceCall, retryCall, adapterCall>>

SpecAnchor == InitAnchor /\ [][CallAnchor]_vars

\* the series the provider of the current lookup holds
Held == DailySeries(histCall.prov.sessions, histCall.prov.dup)

\* the close of the last bar of series dated on or before date, if there is one
CloseOnOrBefore(series, date) ==
    LET upTo == SelectSeq(series, LAMBDA b : b.date <= date)
    IN  IF upTo = <<>> THEN None ELSE Some(upTo[Len(upTo)].close)

\* C13: the month anchor, the value _yf_historical_close(ticker, 30) finds, is
\* the close of the last bar dated on or before today - 30 calendar days,
\* whatever the non-trading days of the series.
C13_MonthAnchorByCalendar ==
    (histCall.done /\ histCall.fn = "_yf_historical_close" /\ histCall.days = 30
        /\ histCall.out.value # None) =>
            histCall.out.value = CloseOnOrBefore(Held, TodayDate - 30)

\* the close n distinct sessions before the latest session the provider holds
CloseSessionsBefore(n) ==
    LET days == Ascending(histCall.prov.sessions)
    IN  IF Len(days) >= n + 1 THEN Some(Bar(days[Len(days) - n]).close) ELSE None

\* C20: what _yf_historical_close(ticker, n) finds is the close n distinct
\* trading sessions before the latest session of the series, also when the
\* series ends with the bar of the last session twice.
C20_CountsDistinctSessions ==
    (histCall.done /\ histCall.fn = "_yf_historical_close" /\ histCall.out.value # None) =>
        histCall.out.value = CloseSessionsBefore(histCall.days)

\* the close of the first bar of series dated on or after date, if there is one
CloseOnOrAfter(series, date) ==
    LET from == SelectSeq(series, LAMBDA b : b.date >= date)
    IN  IF from = <<>> THEN None ELSE Some(from[1].close)

\* the lookups that resolve a year-to-date anchor from a series: lines 345 and
\* 369-377 (_yf_ytd_first_close), line 349 (_yf_historical_close with
\* days_from_ytd, the last resort of the JSE) and line 403
ResolvesYtd ==
    \/ histCall.fn \in {"_yf_ytd_first_close", "get_bitcoin_ytd_price"}
    \/ histCall.fn = "_yf_historical_close" /\ histCall.days = days_from_ytd

\* C14: on every path that resolves a year-to-date anchor, the anchor found is
\* the first trading close on or after January 1 of the current year.
C14_UniformYtdPolicy ==
    (histCall.done /\ ResolvesYtd /\ histCall.out.value # None) =>
        histCall.out.value = CloseOnOrAfter(Held, YearStartDate)

\* the bars or price points the call-th query of the current lookup got back,
\* when it got an answer
Got(call) ==
    LET c == histCall
        from == CASE c.fn = "_yf_historical_close" /\ call = 1 ->
                         TodayDate - (c.days + Max(20, c.days * 3))
                  [] c.fn = "_yf_historical_close" /\ call = 2 ->
                         TodayDate - (c.days + Max(30, c.days * 4))
                  [] c.fn = "_yf_ytd_first_close" -> YearStartDate
                  [] c.fn = "fetch_bitcoin_historical" -> TodayDate - c.days
                  [] c.fn = "get_bitcoin_ytd_price" -> YearStartDate
                  [] OTHER -> 0
        to == CASE c.fn = "_yf_ytd_first_close" -> YearStartDate + 29
                [] c.fn = "fetch_bitcoin_historical" -> TodayDate - c.days
                [] c.fn = "get_bitcoin_ytd_price" -> YearStartDate + 1
                [] OTHER -> TodayDate
    IN  IF c.prov.kinds[call] = "data"
        THEN {Bar(d) : d \in {x \in c.prov.sessions : from <= x /\ x <= to}}
        ELSE {}

\* the call-th query raised, came back empty or came back with too few bars
Useless(call) ==
    \/ histCall.prov.kinds[call] \in {"raise", "empty"}
    \/ Got(call) = {}
    \/ /\ histCall.fn = "_yf_historical_close"
       /\ Cardinality(Got(call)) + (IF histCall.prov.dup THEN 1 ELSE 0) < histCall.days + 1

\* the provider gave the current lookup nothing to take an anchor from
NothingUsable ==
    IF histCall.fn = "_yf_historical_close"
    THEN histCall.prov.kinds[1] = "raise" \/ (Useless(1) /\ Useless(2))
    ELSE IF histCall.fn = "_fx_on_date_exhost"
    THEN histCall.prov.kinds[1] \in {"raise", "empty"}
    ELSE Useless(1)

\* C15: an anchor lookup lets no exception escape; it returns None whenever
\* the provider raises, answers without data or with too few bars; and what it
\* returns otherwise is a price the provider gave, never a zero standing in.
C15_LookupDegradesToNone ==
    histCall.done =>
        /\ ~histCall.out.exc
        /\ NothingUsable => histCall.out.value = None
        /\ histCall.out.value # None =>
              /\ ~NothingUsable
              /\ histCall.out.value[1] # 0
              /\ IF histCall.fn = "_fx_on_date_exhost"
                 THEN histCall.out.value = Some(Bar(TodayDate - histCall.days).close)
                 ELSE \E b \in Got(1) \cup Got(2) : histCall.out.value = Some(b.close)

C15_Witness ==
    /\ histCall.done
    /\ histCall.fn = "_yf_historical_close"
    /\ histCall.days = 30
    /\ histCall.prov.kinds = <<"data", "raise">>
    /\ Cardinality(histCall.prov.sessions) = MaxSpan
    /\ histCall.out = Returns(None)

\* ---------------------------------------------------------------------------
\* The provider adapters and their upstream calls (specification SpecAdapter)
\* ---------------------------------------------------------------------------
\* An upstream call site is given a script: how the successive attempts at it
\* would end.  The upstream fails a number of times and then answers, with
\* data or without.
ScriptLen == RETRY_ATTEMPTS + 1
Scripts ==
    {[k \in 1..ScriptLen |-> IF k < f THEN "raise" ELSE x] :
        f \in 1..(ScriptLen + 1), x \in {"empty", "data"}}

\* a call made outside _retry: one attempt
once(script) == [kind |-> script[1], used |-> 1]

\* a call made through _retry(n): lines 51-58 as a function of the script
RECURSIVE wrapFrom(_, _, _)
wrapFrom(script, k, n) ==
    IF k > n THEN [kind |-> "raise", used |-> n]
    ELSE IF script[k] = "raise" THEN wrapFrom(script, k + 1, n)
    ELSE [kind |-> script[k], used |-> k]

wrap(script) == wrapFrom(script, 1, RETRY_ATTEMPTS)

\* the adapters and, in the order they are reached, their upstream call sites
Sites ==
    [_yf_history |-> <<"history">>,
     _yf_latest_price |-> <<"fast_info", "info", "history_2d", "history_10d">>,
     _fx_latest_exhost |-> <<"latest">>,
     _fx_on_date_exhost |-> <<"on_date">>,
     btc_now |-> <<"get_price">>,
     fetch_bitcoin_historical |-> <<"market_chart_range">>]

\* the price each upstream call site gives when it answers with data
SiteValue(site) ==
    CASE site = "fast_info" -> 111
      [] site = "info" -> 112
      [] site = "history_2d" -> 113
      [] site = "history_10d" -> 114
      [] site = "latest" -> 115
      [] site = "get_price" -> 116
      [] OTHER -> Bar(TodayDate - 1).close

\* lines 89-132: the four strategies in turn, under the outer try/except
_yf_latest_price(scripts) ==
    LET fast == once(scripts["fast_info"])
        info == once(scripts["info"])
        h2 == wrap(scripts["history_2d"])
        h10 == wrap(scripts["history_10d"])
        used(a, b, c, d) ==
            [fast_info |-> a, info |-> b, history_2d |-> c, history_10d |-> d]
    IN  IF fast.kind = "data"
        THEN [value |-> Some(SiteValue("fast_info")), used |-> used(1, 0, 0, 0)]
        ELSE IF info.kind = "data"
        THEN [value |-> Some(SiteValue("info")), used |-> used(1, 1, 0, 0)]
        ELSE IF h2.kind = "data"
        THEN [value |-> Some(SiteValue("history_2d")), used |-> used(1, 1, h2.used, 0)]
        ELSE [value |-> IF h10.kind = "data" THEN Some(SiteValue("history_10d")) ELSE None,
              used |-> used(1, 1, h2.used, h10.used)]

\* lines 186-200
_fx_latest_exhost(script) ==
    LET r == once(script)
    IN  [value |-> IF r.kind = "data" THEN Some(SiteValue("latest")) ELSE None,
         used |-> [latest |-> r.used]]

\* lines 397-400
btc_now(script) ==
    LET r == once(script)
    IN  [value |-> IF r.kind = "data" THEN Some(SiteValue("get_price")) ELSE None,
         used |-> [get_price |-> r.used]]

\* the provider of an anchor lookup whose one upstream call ends as `kind`
Upstream(kind) == [sessions |-> 0..TodayDate, dup |-> FALSE, kinds |-> <<kind, "data">>]

InitAdapter ==
    /\ mainIdle
    /\ pctCall = None
    /\ priceCall = None
    /\ retryCall = None
    /\ histCall = None
    /\ \E fn \in DOMAIN Sites :
       \E scripts \in [{Sites[fn][k] : k \in DOMAIN Sites[fn]} -> Scripts] :
         adapterCall = [fn |-> fn, scripts |-> scripts, done |-> FALSE,
                        out |-> [value |-> None, used |-> <<>>]]

CallAdapter ==
    /\ ~adapterCall.done
    /\ LET c == adapterCall
           s == c.scripts
           out ==
             CASE c.fn = "_yf_history" ->
                    LET r == wrap(s["history"])
                    IN  [value |-> IF r.kind = "data" THEN Some(SiteValue("history")) ELSE None,
                         used |-> [history |-> r.used]]
               [] c.fn = "_yf_latest_price" -> _yf_latest_price(s)
               [] c.fn = "_fx_latest_exhost" -> _fx_latest_exhost(s["latest"])
               [] c.fn = "_fx_on_date_exhost" ->
                    LET r == once(s["on_date"])
                    IN  [value |-> _fx_on_date_exhost(TodayDate - 1, Upstream(r.kind)).value,
                         used |-> [on_date |-> r.used]]
               [] c.fn = "btc_now" -> btc_now(s["get_price"])
               [] c.fn = "fetch_bitcoin_historical" ->
                    LET r == once(s["market_chart_range"])
                    IN  [value |-> fetch_bitcoin_historical(1, Upstream(r.kind)).value,
                         used |-> [market_chart_range |-> r.used]]
       IN  adapterCall' = [adapterCall EXCEPT !.done = TRUE, !.out = out]
    /\ UNCHANGED <<mainVars, pctCall, priceCall, retryCall, histCall>>

SpecAdapter == InitAdapter /\ [][CallAdapter]_vars

\* C18: every upstream call is retried: at each call site an adapter reaches,
\* the attempts go on until one does not raise or RETRY_ATTEMPTS have been
\* made, and when the first attempt that does not raise brings data the
\* adapter returns it; so one failure followed by a success yields the value.
C18_EveryCallRetried ==
    adapterCall.done =>
        \A site \in DOMAIN adapterCall.out.used :
            LET script == adapterCall.scripts[site]
                ok == {k \in 1..RETRY_ATTEMPTS : script[k] # "raise"}
                first == CHOOSE k \in ok : \A j \in ok : k <= j
            IN  adapterCall.out.used[site] > 0 =>
                    IF ok = {} THEN adapterCall.out.used[site] = RETRY_ATTEMPTS
                    ELSE /\ adapterCall.out.used[site] = first
                         /\ script[first] = "data" =>
                               adapterCall.out.value = Some(SiteValue(site))

\* ---------------------------------------------------------------------------
\* The cache file under failing writes (specification SpecWrite)
\* ---------------------------------------------------------------------------

\* the step in which _save_cache raised and swallowed its exception
WriteFailed == trace' = Append(trace, "save_failed")

\* the run that attempted the write returns the snapshot it computed
C24_RunReturnsItsSnapshot ==
    (pc = "idle" /\ trace # <<>> /\ trace[Len(trace)] = "save_failed") =>
        ret = [kind |-> "returned", value |-> Some(FreshSnapshot)]

\* C24: a write of the cache file that fails leaves the last-known-good entry
\* in place: what _load_cache answered before the failed write it answers
\* after it, and the run that attempted the write returns the snapshot it
\* computed.
C24_FailedWriteKeepsLastGood ==
    [][WriteFailed =>
          /\ _load_cache(cache') = _load_cache(cache)
          /\ ret'.value = results]_vars

====
